---- MODULE Spec2Model ----
(***************************************************************************)
(* Model of print_pdfs_win.py: selection of the PDFs of a folder by        *)
(* include/exclude globs, the SumatraPDF -print-settings string, and the   *)
(* per-file dispatch loop of main().                                       *)
(*                                                                         *)
(* Representation.  Text the program only passes along (printer names,     *)
(* executable paths, settings tokens, command-line arguments) is a TLA+    *)
(* string.  Text the program looks into character by character (file       *)
(* names and glob patterns, the stdout of the default-printer query) is a  *)
(* sequence of one-character strings; Str turns such a sequence into a     *)
(* string.  Optional[T] is a sequence of length at most one: None is <<>>  *)
(* and a present value v is <<v>>.  A Path is the sequence of its parts.   *)
(***************************************************************************)
EXTENDS Integers, Sequences, FiniteSets, TLC

VARIABLES
    pc,                \* position of main()
    args,              \* the argparse namespace (line 197)
    host,              \* what main has read of the host so far: whether the
                       \* folder is a directory, the outcome of the default-printer
                       \* query, the files and PATH find_sumatra saw (None: not read)
    fs,                \* the directory entries list_pdfs found under folder
    printer,           \* main's local `printer`
    sumatra,           \* main's local `sumatra`
    pdfs,              \* main's local `pdfs`
    sumatra_settings,  \* main's local `sumatra_settings`
    i,                 \* loop index of line 257 (1-based)
    running,           \* indices of the helper child processes now running
    invocations,       \* the argv of every subprocess.run call of line 154
    log,               \* the lines main has printed, in order
    ret                \* main's return value (None while it runs)

vars == <<pc, args, host, fs, printer, sumatra, pdfs, sumatra_settings, i,
          running, invocations, log, ret>>

-----------------------------------------------------------------------------
(* Bounds of the model *)

\* largest number of directory entries under the folder
MaxEntries == 3

\* largest --copies value tried (the smallest is -1)
MaxCopies == 3

\* largest exit code the helper returns
MaxExitCode == 2

-----------------------------------------------------------------------------
(* Optional values and Python truthiness *)

None == <<>>

Some(v) == <<v>>

\* `if x:` for an Optional[str]
TruthyStr(o) == o # None /\ o[1] # ""

\* `if x:` for an Optional[List[...]]
TruthyList(o) == o # None /\ o[1] # <<>>

Range(s) == {s[k] : k \in 1..Len(s)}

-----------------------------------------------------------------------------
(* Characters *)

UpperChars == <<"A", "B", "C", "D", "E", "F", "G", "H", "I", "J", "K", "L", "M",
                "N", "O", "P", "Q", "R", "S", "T", "U", "V", "W", "X", "Y", "Z">>

LowerChars == <<"a", "b", "c", "d", "e", "f", "g", "h", "i", "j", "k", "l", "m",
                "n", "o", "p", "q", "r", "s", "t", "u", "v", "w", "x", "y", "z">>

\* the characters of the model, in code point order
Alphabet == <<"\n", " ", "!", "*", ".", ":", "?">> \o UpperChars
            \o <<"[", "]", "_">> \o LowerChars

\* code point order of the characters
OrdTable == [c \in Range(Alphabet) |-> CHOOSE k \in 1..Len(Alphabet) : Alphabet[k] = c]

Ord(c) == OrdTable[c]

\* str.lower() of every character
LowerTable ==
    [c \in Range(Alphabet) |->
        IF c \in Range(UpperChars)
        THEN LowerChars[CHOOSE k \in 1..Len(UpperChars) : UpperChars[k] = c]
        ELSE c]

Lower(c) == LowerTable[c]

\* os.path.normcase on Windows, for names without separators
NormCase(s) == [k \in 1..Len(s) |-> Lower(s[k])]

Whitespace == {"\n", " "}

RECURSIVE LStrip(_)
LStrip(s) ==
    IF s # <<>> /\ Head(s) \in Whitespace THEN LStrip(Tail(s)) ELSE s

RECURSIVE RStrip(_)
RStrip(s) ==
    IF s # <<>> /\ s[Len(s)] \in Whitespace
    THEN RStrip(SubSeq(s, 1, Len(s) - 1))
    ELSE s

\* str.strip()
Strip(s) == RStrip(LStrip(s))

\* the string spelled by a sequence of characters
RECURSIVE Str(_)
Str(s) == IF s = <<>> THEN "" ELSE Head(s) \o Str(Tail(s))

\* lexicographic order of two character sequences (Python str "<")
RECURSIVE StrLess(_, _)
StrLess(a, b) ==
    IF b = <<>> THEN FALSE
    ELSE IF a = <<>> THEN TRUE
    ELSE IF Head(a) = Head(b) THEN StrLess(Tail(a), Tail(b))
    ELSE Ord(Head(a)) < Ord(Head(b))

-----------------------------------------------------------------------------
(* fnmatch.fnmatch, as list_pdfs and Path.glob use it *)

\* fnmatch.translate: the index of the "]" that closes the class opened by
\* p[1] = "[", or 0 when the "[" is a literal character
ClassEnd(p) ==
    LET n  == Len(p)
        j1 == IF 2 <= n /\ p[2] = "!" THEN 3 ELSE 2
        j2 == IF j1 <= n /\ p[j1] = "]" THEN j1 + 1 ELSE j1
        closers == {k \in j2..n : p[k] = "]"}
    IN  IF closers = {} THEN 0
        ELSE CHOOSE k \in closers : \A m \in closers : k <= m

\* whether character c is in the class whose text between the brackets is stuff
InClass(c, stuff) ==
    IF Head(stuff) = "!"
    THEN c \notin Range(Tail(stuff))
    ELSE c \in Range(stuff)

\* fnmatch.fnmatchcase: the whole name matches the pattern
RECURSIVE FnMatchCase(_, _)
FnMatchCase(name, pat) ==
    IF pat = <<>> THEN name = <<>>
    ELSE LET c == Head(pat) IN
         CASE c = "*" ->
                  \/ FnMatchCase(name, Tail(pat))
                  \/ name # <<>> /\ FnMatchCase(Tail(name), pat)
           [] c = "?" ->
                  name # <<>> /\ FnMatchCase(Tail(name), Tail(pat))
           [] c = "[" /\ ClassEnd(pat) # 0 ->
                  /\ name # <<>>
                  /\ InClass(Head(name), SubSeq(pat, 2, ClassEnd(pat) - 1))
                  /\ FnMatchCase(Tail(name),
                                 SubSeq(pat, ClassEnd(pat) + 1, Len(pat)))
           [] OTHER ->
                  name # <<>> /\ Head(name) = c
                              /\ FnMatchCase(Tail(name), Tail(pat))

\* fnmatch.fnmatch: both sides pass through os.path.normcase first
FnMatch(name, pat) == FnMatchCase(NormCase(name), NormCase(pat))

-----------------------------------------------------------------------------
(* pathlib *)

\* Path.name
PathName(path) == path[Len(path)]

\* Path "<": the parts compared in order, each case-folded (Windows flavour)
RECURSIVE PathLess(_, _)
PathLess(a, b) ==
    IF b = <<>> THEN FALSE
    ELSE IF a = <<>> THEN TRUE
    ELSE IF NormCase(Head(a)) = NormCase(Head(b))
         THEN PathLess(Tail(a), Tail(b))
         ELSE StrLess(NormCase(Head(a)), NormCase(Head(b)))

\* str(path): the anchor, then the other parts joined by a backslash
RECURSIVE JoinParts(_)
JoinParts(parts) ==
    IF parts = <<>> THEN ""
    ELSE IF Len(parts) = 1 THEN Str(parts[1])
    ELSE Str(parts[1]) \o "\\" \o JoinParts(Tail(parts))

StrPath(path) == Str(path[1]) \o "\\" \o JoinParts(Tail(path))

\* sorted(): the ascending sequence of a set of paths
RECURSIVE Sorted(_)
Sorted(S) ==
    IF S = {} THEN <<>>
    ELSE LET least == CHOOSE x \in S : \A y \in S : ~PathLess(y, x)
         IN  <<least>> \o Sorted(S \ {least})

\* the resolved folder of the run
Folder == << <<"C", ":">>, <<"P", "D", "F", "s">> >>

PdfGlob == <<"*", ".", "p", "d", "f">>

\* folder.glob("**/*.pdf") or folder.glob("*.pdf") over the entries of the
\* folder; an entry is [rel |-> parts below the folder, is_file |-> BOOLEAN]
Glob(folder, entries, recursive) ==
    {folder \o e.rel : e \in {x \in entries :
         /\ recursive \/ Len(x.rel) = 1
         /\ FnMatch(PathName(x.rel), PdfGlob)}}

\* Path.is_file
IsFile(folder, entries, path) ==
    \E e \in entries : folder \o e.rel = path /\ e.is_file

-----------------------------------------------------------------------------
(* list_pdfs *)

matches_any(path, patterns) ==
    \E k \in 1..Len(patterns) : FnMatch(PathName(path), patterns[k])

\* list_pdfs with the exclude filter written as the `elif` of the include
\* filter, so that it is skipped whenever include patterns are given
list_pdfs_elif(folder, entries, recursive, include_patterns, exclude_patterns) ==
    LET files0 == Sorted(Glob(folder, entries, recursive))
        files1 == SelectSeq(files0, LAMBDA f : IsFile(folder, entries, f))
    IN  IF TruthyList(include_patterns)
        THEN SelectSeq(files1, LAMBDA f : matches_any(f, include_patterns[1]))
        ELSE IF TruthyList(exclude_patterns)
             THEN SelectSeq(files1, LAMBDA f : ~matches_any(f, exclude_patterns[1]))
             ELSE files1

list_pdfs(folder, entries, recursive, include_patterns, exclude_patterns) ==
    LET files0 == Sorted(Glob(folder, entries, recursive))
        files1 == SelectSeq(files0, LAMBDA f : IsFile(folder, entries, f))
        files2 == IF TruthyList(include_patterns)
                  THEN SelectSeq(files1,
                         LAMBDA f : matches_any(f, include_patterns[1]))
                  ELSE files1
        files3 == IF TruthyList(exclude_patterns)
                  THEN SelectSeq(files2,
                         LAMBDA f : ~matches_any(f, exclude_patterns[1]))
                  ELSE files2
    IN  files3

-----------------------------------------------------------------------------
(* build_sumatra_print_settings *)

\* dict.get(key): None for a key the dict does not hold
DictGet(map, key) == IF key \in DOMAIN map THEN map[key] ELSE None

\* duplex_map with tumble taken for long-edge binding
duplex_map_tumble_long ==
    ("default" :> None) @@ ("simplex" :> Some("simplex"))
    @@ ("duplex" :> Some("duplex")) @@ ("long-edge" :> Some("duplexlong"))
    @@ ("short-edge" :> Some("duplexshort")) @@ ("tumble" :> Some("duplexlong"))

duplex_map ==
    ("default" :> None) @@ ("simplex" :> Some("simplex"))
    @@ ("duplex" :> Some("duplex")) @@ ("long-edge" :> Some("duplexlong"))
    @@ ("short-edge" :> Some("duplexshort")) @@ ("tumble" :> Some("duplexshort"))

color_map ==
    ("default" :> None) @@ ("color" :> Some("color"))
    @@ ("mono" :> Some("monochrome"))

\* ",".join(parts)
RECURSIVE CommaJoin(_)
CommaJoin(parts) ==
    IF parts = <<>> THEN ""
    ELSE IF Len(parts) = 1 THEN parts[1]
    ELSE parts[1] \o "," \o CommaJoin(Tail(parts))

\* the list `parts` when the function reaches its return statement
settings_parts(duplex, color, pages, copies) ==
    LET d == DictGet(duplex_map, duplex)
        c == DictGet(color_map, color)
    IN  (IF TruthyStr(pages) THEN <<pages[1]>> ELSE <<>>)
        \o (IF TruthyStr(d) THEN <<d[1]>> ELSE <<>>)
        \o (IF TruthyStr(c) THEN <<c[1]>> ELSE <<>>)
        \o (IF copies # 0 /\ copies > 1 THEN <<ToString(copies) \o "x">> ELSE <<>>)

\* build_sumatra_print_settings returning the join whether or not a token
\* was emitted
build_settings_always_joins(duplex, color, pages, copies) ==
    Some(CommaJoin(settings_parts(duplex, color, pages, copies)))

build_sumatra_print_settings(duplex, color, pages, copies) ==
    LET parts == settings_parts(duplex, color, pages, copies)
    IN  IF parts # <<>> THEN Some(CommaJoin(parts)) ELSE None

-----------------------------------------------------------------------------
(* print_with_sumatra *)

\* print_with_sumatra passing -print-settings unconditionally
print_with_sumatra_always_settings(sumatra_exe, pdf_path, printer_name, print_settings) ==
    <<sumatra_exe, "-print-to", printer_name, "-silent", "-exit-on-print",
      "-print-settings", IF print_settings = None THEN "" ELSE print_settings[1],
      StrPath(pdf_path)>>

\* the argv handed to subprocess.run
print_with_sumatra(sumatra_exe, pdf_path, printer_name, print_settings) ==
    <<sumatra_exe, "-print-to", printer_name, "-silent", "-exit-on-print">>
    \o (IF TruthyStr(print_settings)
        THEN <<"-print-settings", print_settings[1]>>
        ELSE <<>>)
    \o <<StrPath(pdf_path)>>

-----------------------------------------------------------------------------
(* find_sumatra *)

\* os.environ.get with the defaults of lines 51-53
ProgramFiles == "C:\\Program Files"

ProgramFilesX86 == "C:\\Program Files (x86)"

LocalAppData == ""

\* Path(base) / "SumatraPDF" / "SumatraPDF.exe", as str() shows it
SumatraUnder(base) ==
    IF base = "" THEN "SumatraPDF\\SumatraPDF.exe"
    ELSE base \o "\\SumatraPDF\\SumatraPDF.exe"

candidates ==
    <<SumatraUnder(ProgramFiles), SumatraUnder(ProgramFilesX86),
      SumatraUnder(LocalAppData)>>

\* shutil.which(name) on a host whose PATH lookup is env.which
Which(env, name) == DictGet(env.which, name)

\* env is [files |-> the paths that are files, which |-> name :> Some(path)]
\* (str(Path(arg)) of line 41 leaves a path written in Windows form as it is)
find_sumatra(sumatra_arg, env) ==
    IF TruthyStr(sumatra_arg)
    THEN IF sumatra_arg[1] \in env.files THEN sumatra_arg
         ELSE IF TruthyStr(Which(env, sumatra_arg[1]))
              THEN Which(env, sumatra_arg[1])
              ELSE None
    ELSE IF TruthyStr(Which(env, "SumatraPDF.exe"))
         THEN Which(env, "SumatraPDF.exe")
         ELSE LET found == {k \in 1..Len(candidates) : candidates[k] \in env.files}
              IN  IF found = {} THEN None
                  ELSE Some(candidates[CHOOSE k \in found : \A m \in found : k <= m])

-----------------------------------------------------------------------------
(* The inputs of the runs *)

\* file and directory names
a_invoice_pdf == <<"a", "_", "i", "n", "v", "o", "i", "c", "e", ".", "p", "d", "f">>

a_draft_pdf == <<"a", "_", "d", "r", "a", "f", "t", ".", "p", "d", "f">>

b_invoice_pdf == <<"b", "_", "i", "n", "v", "o", "i", "c", "e", ".", "p", "d", "f">>

c_invoice_pdf == <<"c", "_", "i", "n", "v", "o", "i", "c", "e", ".", "p", "d", "f">>

B_DRAFT_PDF == <<"B", "_", "D", "R", "A", "F", "T", ".", "P", "D", "F">>

old_pdf == <<"o", "l", "d", ".", "p", "d", "f">>

notes_txt == <<"n", "o", "t", "e", "s", ".", "t", "x", "t">>

sub == <<"s", "u", "b">>

\* glob patterns given to --filter and --exclude
g_invoice == <<"*", "_", "i", "n", "v", "o", "i", "c", "e", ".", "p", "d", "f">>

g_b == <<"b", "_", "*">>

g_draft == <<"*", "_", "d", "r", "a", "f", "t", ".", "p", "d", "f">>

g_a == <<"a", "_", "*">>

g_class == <<"[", "a", "b", "]", "_", "i", "*">>

g_negclass == <<"[", "!", "a", "]", "*">>

g_q == <<"?", "_", "d", "r", "a", "f", "t", ".", "p", "d", "f">>

g_all == <<"*">>

g_open == <<"[", "a", "_", "*">>

Entry(rel, is_file) == [rel |-> rel, is_file |-> is_file]

\* what may lie under the folder: PDFs, a PDF in a subfolder, a PDF named in
\* upper case, a directory named like a PDF, a file that is no PDF
EntryUniverse ==
    {Entry(<<a_invoice_pdf>>, TRUE), Entry(<<a_draft_pdf>>, TRUE),
     Entry(<<b_invoice_pdf>>, TRUE), Entry(<<sub, c_invoice_pdf>>, TRUE),
     Entry(<<B_DRAFT_PDF>>, TRUE), Entry(<<old_pdf>>, FALSE),
     Entry(<<notes_txt>>, TRUE)}

Directories == {d \in SUBSET EntryUniverse : Cardinality(d) <= MaxEntries}

\* the folders main is run on
MainEntryUniverse ==
    {Entry(<<a_invoice_pdf>>, TRUE), Entry(<<a_draft_pdf>>, TRUE),
     Entry(<<b_invoice_pdf>>, TRUE), Entry(<<sub, c_invoice_pdf>>, TRUE),
     Entry(<<old_pdf>>, FALSE)}

MainDirectories == {d \in SUBSET MainEntryUniverse : Cardinality(d) <= MaxEntries}

DuplexChoices == {"default", "simplex", "duplex", "long-edge", "short-edge", "tumble"}

ColorChoices == {"default", "color", "mono"}

PagesChoices == {None, Some(""), Some("1,3"), Some("2-")}

CopiesChoices == (-1)..MaxCopies

IncludeChoices ==
    {None, Some(<<>>), Some(<<g_invoice>>), Some(<<g_a, g_draft>>),
     Some(<<g_class>>), Some(<<g_q>>), Some(<<g_open>>)}

ExcludeChoices ==
    {None, Some(<<>>), Some(<<g_b>>), Some(<<g_draft, g_b>>),
     Some(<<g_negclass>>), Some(<<g_all>>)}

Args(p, s, d, c, pg, n, f, x, dry, rec) ==
    [printer |-> p, sumatra |-> s, duplex |-> d, color |-> c, pages |-> pg,
     copies |-> n, filter |-> f, exclude |-> x, dry_run |-> dry, recursive |-> rec]

CustomSumatra == "D:\\Apps\\SumatraPDF.exe"

\* the command lines main is run with
MainArgs ==
    {Args(p, s, o[1], o[2], o[3], o[4], f[1], f[2], dry, rec) :
        p \in {None, Some(""), Some("HP")},
        s \in {None, Some(CustomSumatra), Some("sumatra")},
        o \in {<<"default", "default", None, 1>>,
               <<"long-edge", "mono", Some("1,3"), MaxCopies>>},
        f \in {<<None, None>>, <<Some(<<g_invoice>>), Some(<<g_b>>)>>},
        dry \in BOOLEAN, rec \in BOOLEAN}

\* the command lines that vary the print options only
SettingsArgs ==
    {Args(Some("HP"), None, d, c, pg, n, None, None, dry, FALSE) :
        d \in DuplexChoices, c \in ColorChoices, pg \in PagesChoices,
        n \in CopiesChoices, dry \in BOOLEAN}

\* the command lines that vary the selection only
SelectArgs ==
    {Args(Some("HP"), None, "default", "default", None, 1, f, x, FALSE, rec) :
        f \in IncludeChoices, x \in ExcludeChoices, rec \in BOOLEAN}

\* outcomes of the PowerShell default-printer query (lines 208-218)
PrinterQueries ==
    {[raised |-> TRUE, stdout |-> None],
     [raised |-> FALSE, stdout |-> None],
     [raised |-> FALSE, stdout |-> Some(<<>>)],
     [raised |-> FALSE, stdout |-> Some(<<" ", "\n">>)],
     [raised |-> FALSE, stdout |-> Some(<<"L", "a", "s", "e", "r", "\n">>)]}

\* hosts find_sumatra may run on
\* a host with SumatraPDF installed under two of the usual places
InstalledHost == [files |-> {candidates[2], candidates[3]}, which |-> <<>>]

SumatraHosts ==
    {[files |-> {}, which |-> <<>>],
     [files |-> {}, which |-> ("SumatraPDF.exe" :> Some("C:\\Tools\\SumatraPDF.exe"))],
     InstalledHost,
     [files |-> {CustomSumatra}, which |-> <<>>],
     [files |-> {}, which |-> ("sumatra" :> Some("C:\\Tools\\sumatra.exe"))]}

\* exceptions subprocess.run raises without having started the helper
LaunchErrors == {"FileNotFoundError", "PermissionError", "ValueError"}

\* exit codes of the helper
ExitCodes == 0..MaxExitCode

-----------------------------------------------------------------------------
(* main *)

\* one printed line: its kind, the file index it is about (0: none) and the
\* helper's exit code (0: none)
Line(kind, idx, code) == [kind |-> kind, i |-> idx, code |-> code]

\* the classes derived from Exception among the exceptions of the model
ExceptionClasses == {"CalledProcessError"} \cup LaunchErrors

\* the except clauses with `except OSError` in place of `except Exception`
except_clause_oserror_only(exc) ==
    IF exc = "CalledProcessError" THEN "FailedExit"
    ELSE IF exc \in {"FileNotFoundError", "PermissionError"} THEN "FailedError"
    ELSE "propagate"

\* which except clause of lines 265-268 takes an exception raised in the try
\* block: the outcome line it prints, or "propagate" when none does
except_clause(exc) ==
    IF exc = "CalledProcessError" THEN "FailedExit"
    ELSE IF exc \in ExceptionClasses THEN "FailedError"
    ELSE "propagate"

\* the state of a run right after parse_args
MainStart(a) ==
    /\ pc = "check_folder"
    /\ args = a
    /\ host = [is_dir |-> None, query |-> None, lookup |-> None]
    /\ fs = {}
    /\ printer = None
    /\ sumatra = None
    /\ pdfs = <<>>
    /\ sumatra_settings = None
    /\ i = 0
    /\ running = {}
    /\ invocations = <<>>
    /\ log = <<>>
    /\ ret = None

Init == \E a \in MainArgs : MainStart(a)

\* CheckFolder without the `return 2`
CheckFolderNoReturn ==
    /\ pc = "check_folder"
    /\ \E is_dir \in BOOLEAN :
          /\ host' = [host EXCEPT !.is_dir = Some(is_dir)]
          /\ log' = IF is_dir THEN log ELSE Append(log, Line("ErrFolder", 0, 0))
    /\ pc' = "resolve_printer"
    /\ UNCHANGED <<args, fs, printer, sumatra, pdfs, sumatra_settings, i,
                   running, invocations, ret>>

\* lines 199-202
CheckFolder ==
    /\ pc = "check_folder"
    /\ \E is_dir \in BOOLEAN :
          /\ host' = [host EXCEPT !.is_dir = Some(is_dir)]
          /\ IF ~is_dir
             THEN /\ log' = Append(log, Line("ErrFolder", 0, 0))
                  /\ ret' = Some(2)
                  /\ pc' = "done"
             ELSE /\ pc' = "resolve_printer"
                  /\ UNCHANGED <<log, ret>>
    /\ UNCHANGED <<args, fs, printer, sumatra, pdfs, sumatra_settings, i,
                   running, invocations>>

\* lines 205-225
ResolvePrinter ==
    /\ pc = "resolve_printer"
    /\ IF TruthyStr(args.printer)
       THEN /\ printer' = args.printer
            /\ pc' = "find_sumatra"
            /\ UNCHANGED <<host, log, ret>>
       ELSE \E q \in PrinterQueries :
              LET name == IF q.raised THEN ""
                          ELSE IF q.stdout = None THEN ""
                          ELSE Str(Strip(q.stdout[1]))
              IN  /\ host' = [host EXCEPT !.query = Some(q)]
                  /\ printer' = Some(name)
                  /\ IF name = ""
                     THEN /\ log' = Append(log, Line("ErrPrinter", 0, 0))
                          /\ ret' = Some(2)
                          /\ pc' = "done"
                     ELSE /\ pc' = "find_sumatra"
                          /\ UNCHANGED <<log, ret>>
    /\ UNCHANGED <<args, fs, sumatra, pdfs, sumatra_settings, i, running,
                   invocations>>

\* lines 227-234
FindSumatra ==
    /\ pc = "find_sumatra"
    /\ \E h \in SumatraHosts :
          /\ host' = [host EXCEPT !.lookup = Some(h)]
          /\ sumatra' = find_sumatra(args.sumatra, h)
          /\ IF ~TruthyStr(sumatra')
             THEN /\ log' = Append(log, Line("ErrSumatra", 0, 0))
                  /\ ret' = Some(2)
                  /\ pc' = "done"
             ELSE /\ pc' = "list_pdfs"
                  /\ UNCHANGED <<log, ret>>
    /\ UNCHANGED <<args, fs, printer, pdfs, sumatra_settings, i, running,
                   invocations>>

\* lines 236-239, on a folder holding `entries`
ListPdfsOn(entries) ==
    /\ pc = "list_pdfs"
    /\ fs' = entries
    /\ pdfs' = list_pdfs(Folder, entries, args.recursive, args.filter, args.exclude)
    /\ IF pdfs' = <<>>
       THEN /\ log' = Append(log, Line("NoPdfs", 0, 0))
            /\ ret' = Some(0)
            /\ pc' = "done"
       ELSE /\ pc' = "build_settings"
            /\ UNCHANGED <<log, ret>>
    /\ UNCHANGED <<args, host, printer, sumatra, sumatra_settings, i, running,
                   invocations>>

ListPdfs == \E entries \in MainDirectories : ListPdfsOn(entries)

\* lines 241-255: the settings string, the summary header, the loop entered
BuildSettings ==
    /\ pc = "build_settings"
    /\ sumatra_settings' =
          build_sumatra_print_settings(args.duplex, args.color, args.pages, args.copies)
    /\ log' = Append(log, Line("Header", 0, 0))
    /\ i' = 1
    /\ pc' = "loop"
    /\ UNCHANGED <<args, host, fs, printer, sumatra, pdfs, running,
                   invocations, ret>>

\* the except clauses ending the run at the first failed file
RaiseAndReturn(exc, code, printed) ==
    /\ log' = printed \o <<Line(except_clause(exc), i, code)>>
    /\ ret' = Some(1)
    /\ pc' = "done"
    /\ UNCHANGED i

\* what an exception raised in the try block of iteration i does (lines
\* 265-268); an exception no clause takes ends main with a traceback
Raise(exc, code, printed) ==
    IF except_clause(exc) = "propagate"
    THEN /\ log' = printed \o <<Line("Traceback", i, code)>>
         /\ ret' = Some(1)
         /\ pc' = "done"
         /\ UNCHANGED i
    ELSE /\ log' = printed \o <<Line(except_clause(exc), i, code)>>
         /\ i' = i + 1
         /\ pc' = "loop"
         /\ UNCHANGED ret

\* a dry run that prints its line and calls the helper all the same
DryRunFileLaunches ==
    /\ pc = "loop"
    /\ i <= Len(pdfs)
    /\ args.dry_run
    /\ invocations' = Append(invocations,
          print_with_sumatra(sumatra[1], pdfs[i], printer[1], sumatra_settings))
    /\ log' = log \o <<Line("File", i, 0), Line("DryRunSkipped", i, 0)>>
    /\ i' = i + 1
    /\ UNCHANGED <<pc, args, host, fs, printer, sumatra, pdfs,
                   sumatra_settings, running, ret>>

\* lines 257-261: one iteration of a dry run
DryRunFile ==
    /\ pc = "loop"
    /\ i <= Len(pdfs)
    /\ args.dry_run
    /\ log' = log \o <<Line("File", i, 0), Line("DryRunSkipped", i, 0)>>
    /\ i' = i + 1
    /\ UNCHANGED <<pc, args, host, fs, printer, sumatra, pdfs,
                   sumatra_settings, running, invocations, ret>>

\* the helper started without waiting for it (Popen in place of run)
LaunchHelperNoWait ==
    /\ pc = "loop"
    /\ i <= Len(pdfs)
    /\ ~args.dry_run
    /\ invocations' = Append(invocations,
          print_with_sumatra(sumatra[1], pdfs[i], printer[1], sumatra_settings))
    /\ \E launch \in {"started"} \cup LaunchErrors :
          IF launch = "started"
          THEN /\ running' = running \cup {i}
               /\ log' = log \o <<Line("File", i, 0), Line("Printed", i, 0)>>
               /\ i' = i + 1
               /\ UNCHANGED <<pc, ret>>
          ELSE /\ Raise(launch, 0, Append(log, Line("File", i, 0)))
               /\ UNCHANGED running
    /\ UNCHANGED <<args, host, fs, printer, sumatra, pdfs, sumatra_settings>>

\* lines 257-263 and 145-154: subprocess.run is called for file i and either
\* starts the helper or raises
LaunchHelper ==
    /\ pc = "loop"
    /\ i <= Len(pdfs)
    /\ ~args.dry_run
    /\ invocations' = Append(invocations,
          print_with_sumatra(sumatra[1], pdfs[i], printer[1], sumatra_settings))
    /\ \E launch \in {"started"} \cup LaunchErrors :
          IF launch = "started"
          THEN /\ running' = running \cup {i}
               /\ log' = Append(log, Line("File", i, 0))
               /\ pc' = "wait"
               /\ UNCHANGED <<i, ret>>
          ELSE /\ Raise(launch, 0, Append(log, Line("File", i, 0)))
               /\ UNCHANGED running
    /\ UNCHANGED <<args, host, fs, printer, sumatra, pdfs, sumatra_settings>>

\* a failed print making the rest of the run fall back to the driver defaults
HelperExitDropsSettings ==
    /\ pc = "wait"
    /\ running' = running \ {i}
    /\ \E returncode \in ExitCodes :
          IF returncode = 0
          THEN /\ log' = Append(log, Line("Printed", i, 0))
               /\ i' = i + 1
               /\ pc' = "loop"
               /\ UNCHANGED <<ret, sumatra_settings>>
          ELSE /\ Raise("CalledProcessError", returncode, log)
               /\ sumatra_settings' = None
    /\ UNCHANGED <<args, host, fs, printer, sumatra, pdfs, invocations>>

\* lines 154 and 264-266: the helper of file i exits; check=True turns a
\* non-zero exit code into CalledProcessError
HelperExit ==
    /\ pc = "wait"
    /\ running' = running \ {i}
    /\ \E returncode \in ExitCodes :
          IF returncode = 0
          THEN /\ log' = Append(log, Line("Printed", i, 0))
               /\ i' = i + 1
               /\ pc' = "loop"
               /\ UNCHANGED ret
          ELSE Raise("CalledProcessError", returncode, log)
    /\ UNCHANGED <<args, host, fs, printer, sumatra, pdfs, sumatra_settings,
                   invocations>>

\* lines 270-271
Finish ==
    /\ pc = "loop"
    /\ i > Len(pdfs)
    /\ log' = Append(log, Line("Fertig", 0, 0))
    /\ ret' = Some(0)
    /\ pc' = "done"
    /\ UNCHANGED <<args, host, fs, printer, sumatra, pdfs, sumatra_settings, i,
                   running, invocations>>

Next ==
    \/ CheckFolder
    \/ ResolvePrinter
    \/ FindSumatra
    \/ ListPdfs
    \/ BuildSettings
    \/ DryRunFile
    \/ LaunchHelper
    \/ HelperExit
    \/ Finish

Spec == Init /\ [][Next]_vars

-----------------------------------------------------------------------------
(* build_sumatra_print_settings alone, over every combination of options *)

\* main at line 241, on a folder with two PDFs
SettingsStart(a) ==
    /\ pc = "build_settings"
    /\ args = a
    /\ host = [is_dir |-> Some(TRUE), query |-> None, lookup |-> Some(InstalledHost)]
    /\ fs = {Entry(<<a_invoice_pdf>>, TRUE), Entry(<<b_invoice_pdf>>, TRUE)}
    /\ printer = a.printer
    /\ sumatra = find_sumatra(a.sumatra, InstalledHost)
    /\ pdfs = list_pdfs(Folder, fs, a.recursive, a.filter, a.exclude)
    /\ sumatra_settings = None
    /\ i = 0
    /\ running = {}
    /\ invocations = <<>>
    /\ log = <<>>
    /\ ret = None

InitSettings == \E a \in SettingsArgs : SettingsStart(a)

NextSettings ==
    \/ BuildSettings
    \/ DryRunFile
    \/ LaunchHelper
    \/ HelperExit
    \/ Finish

SpecSettings == InitSettings /\ [][NextSettings]_vars

-----------------------------------------------------------------------------
(* list_pdfs alone, over every folder and every pair of pattern lists *)

\* main at line 236
SelectStart(a) ==
    /\ pc = "list_pdfs"
    /\ args = a
    /\ host = [is_dir |-> Some(TRUE), query |-> None, lookup |-> Some(InstalledHost)]
    /\ fs = {}
    /\ printer = a.printer
    /\ sumatra = find_sumatra(a.sumatra, InstalledHost)
    /\ pdfs = <<>>
    /\ sumatra_settings = None
    /\ i = 0
    /\ running = {}
    /\ invocations = <<>>
    /\ log = <<>>
    /\ ret = None

InitSelect == \E a \in SelectArgs : SelectStart(a)

ListPdfsAll == \E entries \in Directories : ListPdfsOn(entries)

NextSelect == ListPdfsAll

SpecSelect == InitSelect /\ [][NextSelect]_vars

-----------------------------------------------------------------------------
(* What the claims speak of *)

Last(s) == s[Len(s)]

OutcomeKinds == {"Printed", "DryRunSkipped", "FailedExit", "FailedError"}

\* the outcome lines printed so far, one per dispatched file
Outcomes == SelectSeq(log, LAMBDA l : l.kind \in OutcomeKinds)

\* the file argument of every helper invocation so far
InvokedFiles == [k \in 1..Len(invocations) |-> Last(invocations[k])]

\* the selected list as the helper is given it
SelectedFiles == [k \in 1..Len(pdfs) |-> StrPath(pdfs[k])]

\* whether some outcome line of the given kind is about file k
HasOutcome(kind, k) == \E n \in 1..Len(log) : log[n].kind = kind /\ log[n].i = k

-----------------------------------------------------------------------------
(* C1 *)

\* C1: in a non-dry run, a helper invocation that ends with a non-zero exit
\* code does not stop the loop: the loop moves on to the next file, and when
\* main is done every selected file has been handed to the helper, in list
\* order, and main has returned 0.
C1_FailedExitContinues ==
    ~args.dry_run =>
        \A n \in 1..Len(log) :
            log[n].kind = "FailedExit" =>
                /\ log[n].code # 0
                /\ pc \in {"loop", "wait", "done"}
                /\ pc \in {"loop", "wait"} => i > log[n].i
                /\ pc = "done" => ret = Some(0) /\ InvokedFiles = SelectedFiles

\* a finished run of three files whose first two helper runs exited non-zero
C1_Witness ==
    /\ pc = "done" /\ ~args.dry_run /\ Len(pdfs) = 3
    /\ HasOutcome("FailedExit", 1) /\ HasOutcome("FailedExit", 2)
    /\ HasOutcome("Printed", 3)

-----------------------------------------------------------------------------
(* C2 *)

\* C2: in a dry run the helper is never invoked and never runs; the loop
\* prints exactly one DryRunSkipped outcome per selected file, in list order;
\* the list the loop is entered with and the settings string it is entered
\* with are what list_pdfs and build_sumatra_print_settings give for the
\* arguments, whether the run is dry or not.
C2_DryRunNeverInvokes ==
    /\ args.dry_run =>
          /\ invocations = <<>>
          /\ running = {}
          /\ pc # "wait"
          /\ pc = "loop" =>
                Outcomes = [k \in 1..(i - 1) |-> Line("DryRunSkipped", k, 0)]
          /\ pc = "done" /\ pdfs # <<>> =>
                Outcomes = [k \in 1..Len(pdfs) |-> Line("DryRunSkipped", k, 0)]
    /\ pc = "build_settings" =>
          pdfs = list_pdfs(Folder, fs, args.recursive, args.filter, args.exclude)
    /\ pc = "loop" /\ i = 1 =>
          sumatra_settings = build_sumatra_print_settings(
                                 args.duplex, args.color, args.pages, args.copies)

\* a finished dry run over three selected files, chosen by the filters
C2_Witness ==
    /\ pc = "done" /\ args.dry_run /\ Len(pdfs) = 3 /\ ret = Some(0)
    /\ Len(Outcomes) = 3 /\ sumatra_settings # None

-----------------------------------------------------------------------------
(* C3 *)

\* the folder is not a directory
FolderCheckFailed == host.is_dir = Some(FALSE)

\* no printer was supplied and the default-printer query raised or printed
\* nothing but white space
PrinterCheckFailed ==
    /\ args.printer \in {None, Some("")}
    /\ host.query # None
    /\ \/ host.query[1].raised
       \/ host.query[1].stdout = None
       \/ \A k \in 1..Len(host.query[1].stdout[1]) :
              host.query[1].stdout[1][k] \in Whitespace

\* the helper executable is nowhere: neither the --sumatra value as a file or
\* on PATH, or without --sumatra neither SumatraPDF.exe on PATH nor any of the
\* usual install places
HelperCheckFailed ==
    /\ host.lookup # None
    /\ IF args.sumatra \in {None, Some("")}
       THEN /\ "SumatraPDF.exe" \notin DOMAIN host.lookup[1].which
            /\ \A k \in 1..Len(candidates) : candidates[k] \notin host.lookup[1].files
       ELSE /\ args.sumatra[1] \notin host.lookup[1].files
            /\ args.sumatra[1] \notin DOMAIN host.lookup[1].which

AllChecksPassed ==
    /\ host.is_dir = Some(TRUE)
    /\ args.printer \notin {None, Some("")} \/ host.query # None
    /\ ~PrinterCheckFailed
    /\ host.lookup # None
    /\ ~HelperCheckFailed

\* C3: when a setup check fails main is done with exit code 2, having
\* selected no file and invoked no helper; when all three checks have passed
\* and main is done, it has returned 0.
C3_SetupFailureExits2 ==
    /\ FolderCheckFailed \/ PrinterCheckFailed \/ HelperCheckFailed =>
          /\ pc = "done" /\ ret = Some(2)
          /\ fs = {} /\ pdfs = <<>>
          /\ invocations = <<>> /\ running = {} /\ Outcomes = <<>>
    /\ pc = "done" /\ AllChecksPassed => ret = Some(0)

\* the folder and the printer were fine and the helper was not found
C3_Witness ==
    /\ pc = "done" /\ ret = Some(2) /\ HelperCheckFailed
    /\ host.is_dir = Some(TRUE) /\ host.query # None /\ args.sumatra # None

-----------------------------------------------------------------------------
(* C4 *)

\* the candidate files: the regular files under the folder (below it too when
\* recursive) whose name ends in .pdf
Candidates ==
    {Folder \o e.rel : e \in {x \in fs :
        /\ x.is_file
        /\ args.recursive \/ Len(x.rel) = 1
        /\ FnMatch(PathName(x.rel), PdfGlob)}}

MatchesInclude(f) ==
    args.filter # None /\ \E p \in Range(args.filter[1]) : FnMatch(PathName(f), p)

MatchesExclude(f) ==
    args.exclude # None /\ \E p \in Range(args.exclude[1]) : FnMatch(PathName(f), p)

\* C4: list_pdfs returns, each once, exactly the candidates that match an
\* include pattern (or any candidate when the include list is absent or
\* empty) and match no exclude pattern; a file matching both an include and
\* an exclude pattern is not returned.
C4_IncludeThenExclude ==
    pc # "list_pdfs" =>
        /\ Range(pdfs) =
              {f \in Candidates :
                  /\ args.filter \in {None, Some(<<>>)} \/ MatchesInclude(f)
                  /\ ~MatchesExclude(f)}
        /\ Cardinality(Range(pdfs)) = Len(pdfs)
        /\ \A f \in Range(pdfs) : ~(MatchesInclude(f) /\ MatchesExclude(f))

\* the example of the specification: *_invoice.pdf without b_*
C4_Witness ==
    /\ pc # "list_pdfs"
    /\ args.filter = Some(<<g_invoice>>) /\ args.exclude = Some(<<g_b>>)
    /\ fs = {Entry(<<a_invoice_pdf>>, TRUE), Entry(<<a_draft_pdf>>, TRUE),
             Entry(<<b_invoice_pdf>>, TRUE)}
    /\ pdfs = <<Folder \o <<a_invoice_pdf>>>>

-----------------------------------------------------------------------------
(* C5 *)

\* the tokens the claim names, "" standing for an omitted token
C5_Pages(pages) == IF pages \in {None, Some("")} THEN "" ELSE pages[1]

C5_Duplex(duplex) ==
    CASE duplex = "simplex" -> "simplex"
      [] duplex = "duplex" -> "duplex"
      [] duplex = "long-edge" -> "duplexlong"
      [] duplex = "short-edge" -> "duplexshort"
      [] duplex = "tumble" -> "duplexshort"
      [] OTHER -> ""

C5_Color(color) ==
    CASE color = "color" -> "color"
      [] color = "mono" -> "monochrome"
      [] OTHER -> ""

C5_Copies(copies) == IF copies > 1 THEN ToString(copies) \o "x" ELSE ""

\* a then b, with a comma between them when both are there
C5_Glue(a, b) == IF a = "" THEN b ELSE IF b = "" THEN a ELSE a \o "," \o b

C5_Joined(a) ==
    C5_Glue(C5_Pages(a.pages),
            C5_Glue(C5_Duplex(a.duplex),
                    C5_Glue(C5_Color(a.color), C5_Copies(a.copies))))

\* C5: the settings string is the tokens pages, duplex, color, copies, in that
\* order and comma-joined, with the token tables of the claim (and no string
\* when no token is emitted); tumble gives what short-edge gives; long-edge,
\* mono, pages "1,3", 3 copies give "1,3,duplexlong,monochrome,3x".
C5_TokenOrderAndTables ==
    pc # "build_settings" =>
        /\ sumatra_settings =
              IF C5_Joined(args) = "" THEN None ELSE Some(C5_Joined(args))
        /\ args.duplex = "tumble" =>
              sumatra_settings = build_sumatra_print_settings(
                                     "short-edge", args.color, args.pages, args.copies)
        /\ /\ args.duplex = "long-edge" /\ args.color = "mono"
           /\ args.pages = Some("1,3") /\ args.copies = 3
           => sumatra_settings = Some("1,3,duplexlong,monochrome,3x")

\* the example of the specification has been built
C5_Witness ==
    /\ pc # "build_settings"
    /\ args.duplex = "long-edge" /\ args.color = "mono"
    /\ args.pages = Some("1,3") /\ args.copies = 3
    /\ sumatra_settings = Some("1,3,duplexlong,monochrome,3x")

-----------------------------------------------------------------------------
(* C6 *)

\* no option emits a token
C6_NoToken(a) ==
    /\ a.duplex = "default" /\ a.color = "default"
    /\ a.pages \in {None, Some("")}
    /\ a.copies <= 1

\* C6: build_sumatra_print_settings never returns the empty string; it
\* returns None exactly when no token is emitted (duplex and color default,
\* pages unset or empty, copies at most 1) and a non-empty string otherwise.
C6_NoneNotEmpty ==
    pc # "build_settings" =>
        /\ sumatra_settings # Some("")
        /\ sumatra_settings = None <=> C6_NoToken(args)

\* nothing is emitted for an empty --pages and zero copies
C6_Witness ==
    /\ pc # "build_settings"
    /\ args.pages = Some("") /\ args.copies = 0
    /\ args.duplex = "default" /\ args.color = "default"
    /\ sumatra_settings = None

-----------------------------------------------------------------------------
(* C7 *)

\* C7: in a non-dry run at most one helper runs at a time; the loop starts
\* the next invocation only when none runs; the k-th invocation is for the
\* k-th selected file, so no file is invoked twice and, when main is done,
\* each has been invoked once; the selected list ascends in path order.
C7_SequentialOncePerFile ==
    ~args.dry_run =>
        /\ Cardinality(running) <= 1
        /\ pc = "loop" => running = {} /\ Len(invocations) = i - 1
        /\ pc = "wait" => running = {i} /\ Len(invocations) = i
        /\ Len(invocations) <= Len(pdfs)
        /\ \A k \in 1..Len(invocations) : InvokedFiles[k] = StrPath(pdfs[k])
        /\ pc = "done" => running = {} /\ Len(invocations) = Len(pdfs)
        /\ \A k \in 1..(Len(pdfs) - 1) : PathLess(pdfs[k], pdfs[k + 1])

\* a finished run of three files, two of which failed in the two ways
C7_Witness ==
    /\ pc = "done" /\ ~args.dry_run /\ Len(invocations) = 3
    /\ HasOutcome("FailedExit", 1) /\ HasOutcome("FailedError", 2)

-----------------------------------------------------------------------------
(* C8 *)

-----------------------------------------------------------------------------
(* C9 *)

\* C9: every helper invocation is: helper path, -print-to, printer name,
\* -silent, -exit-on-print, then -print-settings and the settings string
\* exactly when there is a settings string, then the file path; without a
\* settings string neither -print-settings nor an empty argument appears.
C9_ArgvContract ==
    \A k \in 1..Len(invocations) :
        /\ SubSeq(invocations[k], 1, 5) =
              <<sumatra[1], "-print-to", printer[1], "-silent", "-exit-on-print">>
        /\ Last(invocations[k]) = StrPath(pdfs[k])
        /\ IF sumatra_settings # None
           THEN /\ Len(invocations[k]) = 8
                /\ invocations[k][6] = "-print-settings"
                /\ invocations[k][7] = sumatra_settings[1]
           ELSE /\ Len(invocations[k]) = 6
                /\ "-print-settings" \notin Range(invocations[k])
                /\ "" \notin Range(invocations[k])

\* both files were handed to the helper without a settings string
C9_Witness ==
    /\ Len(invocations) = 2 /\ sumatra_settings = None
    /\ args.pages = Some("") /\ args.copies = 1

-----------------------------------------------------------------------------
(* C10 *)

\* C10: no step of the dispatch loop changes the printer name, the helper
\* path, the settings string or the selected list; a step that prints a
\* Failed outcome for file i moves on to file i + 1 with the files after it
\* still to come; every invocation is given the same helper, printer and
\* settings arguments as the first.
C10_LoopFrame ==
    [][/\ pc \in {"loop", "wait"} =>
             /\ printer' = printer /\ sumatra' = sumatra
             /\ sumatra_settings' = sumatra_settings
             /\ pdfs' = pdfs /\ args' = args
       /\ /\ Len(log') > Len(log)
          /\ Last(log').kind \in {"FailedExit", "FailedError"}
          => /\ i' = i + 1
             /\ SubSeq(pdfs', i', Len(pdfs')) = SubSeq(pdfs, i + 1, Len(pdfs))
       /\ \A k \in 1..Len(invocations') :
             /\ invocations'[k][1] = sumatra'[1]
             /\ invocations'[k][3] = printer'[1]
             /\ SubSeq(invocations'[k], 1, Len(invocations'[k]) - 1) =
                   SubSeq(invocations'[1], 1, Len(invocations'[1]) - 1)
             /\ Len(invocations'[k]) > 6 => invocations'[k][7] = sumatra_settings'[1]
      ]_vars

\* the helper was invoked for the third file after the first two had failed
C10_Witness ==
    /\ Len(invocations) = 3 /\ sumatra_settings # None
    /\ HasOutcome("FailedExit", 1) /\ HasOutcome("FailedError", 2)

====
